---- MODULE Spec2Model ----
(***************************************************************************)
(* bblogger: a broadband modem statistics logger.                          *)
(*                                                                         *)
(* The model follows src/bblogger.py: the Vigor130Modem statistics reader, *)
(* the ConnectionStats scheduler loop and the two StatsLogger reporters,   *)
(* together with the file system the reporters write to.                   *)
(*                                                                         *)
(* Time is counted in ticks of half a second since 2021-01-01 00:00:00, so *)
(* that the sleep of interval*60 - 0.5 seconds is a whole number of ticks. *)
(***************************************************************************)
EXTENDS Integers, Sequences, FiniteSets, TLC

VARIABLES
    pc,            \* position of the process: idle, test, read, rotate, log,
                   \* sleep, finished, aborted, killed
    run,           \* number of processes started so far
    now,           \* the wall clock, in ticks
    duration,      \* ConnectionStats._duration, hours
    interval,      \* ConnectionStats._interval, minutes
    to_file,       \* StatsLogger._to_file, and ConnectionStats._perday
    fformat,       \* "dump" or "csv"
    log_datetime,  \* log_stats: the sampled time of the current cycle
    log_day,       \* log_stats: day of month of the current reporting period
    end_time,      \* log_stats: log_datetime at start + duration
    stats,         \* BroadBandModem._stats
    output,        \* StatsLogger._output: NoOutput, Stdout or a file name
    new_logfile,   \* StatsLogger._new_logfile
    files,         \* the working directory: file name -> sequence of rows
    stdout,        \* what was written to sys.stdout
    polls,         \* history: the modem responses of this run's completed cycles
    emitted,       \* history: the Report Records handed to Reporter.log this run
    failure,       \* where the last read_stats raised, or "none"
    connection,    \* Vigor130Modem._connection: the TelnetConnection instance
    session,       \* the calls on the connection that the last read_stats completed
    sockets,       \* the sockets of the process that are open
    used,          \* history: the instance and the socket of each cycle of this run
    started        \* history: the calls of Reporter.start of this run

\* the state of the connection to the modem
net == <<connection, session, sockets, used>>

vars == <<pc, run, now, duration, interval, to_file, fformat, log_datetime,
          log_day, end_time, stats, output, new_logfile, files, stdout,
          polls, emitted, failure, connection, session, sockets, used, started>>

----------------------------------------------------------------------------
(* Bounds of the model *)

\* largest time a cycle's read_stats and log take together, in ticks
MaxLatency == 1

\* largest number of processes started one after another on the same directory
MaxRuns == 2

----------------------------------------------------------------------------
(* Time and the calendar *)

TicksPerSecond == 2

TicksPerMinute == 60 * TicksPerSecond

TicksPerHour == 60 * TicksPerMinute

TicksPerDay == 24 * TicksPerHour

\* the first day of the modelled calendar
Epoch == [year |-> 2021, month |-> 1]

IsLeap(y) == (y % 4 = 0 /\ y % 100 # 0) \/ y % 400 = 0

DaysInMonth(y, m) ==
    IF m = 2 THEN (IF IsLeap(y) THEN 29 ELSE 28)
    ELSE IF m \in {4, 6, 9, 11} THEN 30 ELSE 31

RECURSIVE CivilFromDays(_, _, _)
\* the calendar date d days after the first day of month m of year y
CivilFromDays(y, m, d) ==
    IF d < DaysInMonth(y, m)
    THEN [year |-> y, month |-> m, day |-> d + 1]
    ELSE CivilFromDays(IF m = 12 THEN y + 1 ELSE y,
                       IF m = 12 THEN 1 ELSE m + 1,
                       d - DaysInMonth(y, m))

\* datetime.date(): the calendar date of an instant
DateOf(t) == CivilFromDays(Epoch.year, Epoch.month, t \div TicksPerDay)

\* datetime.day: the day of the month of an instant
DayOf(t) == DateOf(t).day

\* the instant hh:mm:ss on day d of month m of the epoch year
At(m, d, hh, mm, ss) ==
    LET RECURSIVE Before(_)
        Before(k) == IF k = 1 THEN 0 ELSE Before(k - 1) + DaysInMonth(Epoch.year, k - 1)
    IN  (Before(m) + d - 1) * TicksPerDay + hh * TicksPerHour
            + mm * TicksPerMinute + ss * TicksPerSecond

\* strftime("%Y-%m-%d %H:%M"): the timestamp of a dump record
FormatMinutes(t) ==
    [date |-> DateOf(t),
     hour |-> (t % TicksPerDay) \div TicksPerHour,
     minute |-> (t % TicksPerHour) \div TicksPerMinute]

\* isoformat(' ', 'seconds'): the timestamp of a CSV row
FormatSeconds(t) ==
    [date |-> DateOf(t),
     hour |-> (t % TicksPerDay) \div TicksPerHour,
     minute |-> (t % TicksPerHour) \div TicksPerMinute,
     second |-> (t % TicksPerMinute) \div TicksPerSecond]

\* log_filename: "<date>.<extension>"
log_filename(t, extension) == [date |-> DateOf(t), ext |-> extension]

----------------------------------------------------------------------------
(* The statistics catalog *)

UPTIME == "Uptime"
DS_ACTUAL == "DS Actual"
DS_ATTAINABLE == "DS Attainable"
DS_PSD == "DS PSD"
US_ACTUAL == "US Actual"
US_ATTAINABLE == "US Attainable"
US_PSD == "US PSD"
NE_ATTENUATION == "NE Attenuation"
NE_SNR_MARGIN == "NE SNR Margin"
NE_RCVD_CELLS == "NE Rcvd Cells"
NE_XMITTED_CELLS == "NE Xmitted Cells"
NE_CRC_COUNT == "NE CRC Count"
NE_ES_COUNT == "NE ES Count"
FE_ATTENUATION == "FE Attenuation"
FE_SNR_MARGIN == "FE SNR Margin"
FE_CRC_COUNT == "FE CRC Count"
FE_ES_COUNT == "FE ES Count"
RESET_TIMES == "Reset Times"
LINK_TIMES == "Link Times"

ALL_STATS ==
    << UPTIME, RESET_TIMES, LINK_TIMES, DS_ACTUAL, DS_ATTAINABLE, DS_PSD,
       NE_ATTENUATION, NE_SNR_MARGIN, NE_RCVD_CELLS, NE_XMITTED_CELLS,
       NE_CRC_COUNT, NE_ES_COUNT, US_ACTUAL, US_ATTAINABLE, US_PSD,
       FE_ATTENUATION, FE_SNR_MARGIN, FE_CRC_COUNT, FE_ES_COUNT >>

\* the keys of Vigor130Modem.STATUS_STATS, in the order of the dict
STATUS_STATS == << UPTIME >>

\* the keys of Vigor130Modem.ADSL_STATS, in the order of the dict
ADSL_STATS ==
    << DS_ACTUAL, DS_ATTAINABLE, DS_PSD, US_ACTUAL, US_ATTAINABLE, US_PSD,
       NE_ATTENUATION, NE_SNR_MARGIN, NE_RCVD_CELLS, NE_XMITTED_CELLS,
       NE_CRC_COUNT, NE_ES_COUNT, FE_ATTENUATION, FE_SNR_MARGIN,
       FE_CRC_COUNT, FE_ES_COUNT, RESET_TIMES, LINK_TIMES >>

Range(s) == {s[i] : i \in 1..Len(s)}

\* the statistics whose pattern captures an optional minus sign, (-?\d+)
SIGNED_STATS == {NE_RCVD_CELLS, NE_XMITTED_CELLS}

\* the statistics rebuilt as a float from two captures
PSD_STATS == {DS_PSD, US_PSD}

\* the statistics rebuilt as an int from one capture
COUNTER_STATS == Range(ADSL_STATS) \ PSD_STATS

----------------------------------------------------------------------------
(* Captured text and the values rebuilt from it *)

\* A capture group is a string of decimal digits, with a minus sign in front
\* where the pattern allows one.
U(ds) == [neg |-> FALSE, digits |-> ds]

M(ds) == [neg |-> TRUE, digits |-> ds]

\* re.search found nothing: there is no match object and there are no groups
NoMatch == << >>

\* int(bytes): the digits read left to right, in base ten
PyInt(g) ==
    LET RECURSIVE Acc(_, _)
        Acc(i, a) ==
            IF i > Len(g.digits) THEN a
            ELSE Acc(i + 1, 10 * a + (IF g.neg THEN 0 - g.digits[i] ELSE g.digits[i]))
    IN  Acc(1, 0)

\* a Python int
IntValue(n) == [kind |-> "int", v |-> n]

\* a Python str
StrValue(s) == [kind |-> "str", s |-> s]

\* HoursDelta(hours=h, minutes=m): a timedelta, kept as its total seconds
HoursDelta(h, m) == [kind |-> "HoursDelta", seconds |-> 3600 * h + 60 * m]

RECURSIVE StripLeft(_)
\* a digit string without its leading zeros
StripLeft(ds) == IF ds # << >> /\ Head(ds) = 0 THEN StripLeft(Tail(ds)) ELSE ds

RECURSIVE StripRight(_)
\* a digit string without its trailing zeros
StripRight(ds) ==
    IF ds # << >> /\ ds[Len(ds)] = 0 THEN StripRight(SubSeq(ds, 1, Len(ds) - 1)) ELSE ds

\* the digits kept as they were captured
PyFloatAsCaptured(g1, g2) == [kind |-> "float", int |-> g1.digits, frac |-> g2.digits]

\* float(b"%s.%s" % (g1, g2)): the number, which keeps neither the leading
\* zeros of g1 nor the trailing zeros of g2 (exact for the short digit strings
\* of the model)
PyFloat(g1, g2) ==
    [kind |-> "float", int |-> StripLeft(g1.digits), frac |-> StripRight(g2.digits)]

\* the correction applied to zero as well
SignCorrectNonPositive(value) == IF value <= 0 THEN value + 2147483647 ELSE value

\* lines 236-237: a negative counter is moved up by (1<<31) - 1
SignCorrect(value) == IF value < 0 THEN value + 2147483647 ELSE value

\* lines 220-222: the value stored for a statistic of the status response
StatusValue(groups) == HoursDelta(PyInt(groups[1]), PyInt(groups[2]))

\* lines 230-238: the value stored for a statistic of the adsl response
AdslValue(stat, groups) ==
    IF stat = DS_PSD \/ stat = US_PSD
    THEN PyFloat(groups[1], groups[2])
    ELSE IntValue(SignCorrect(PyInt(groups[1])))

\* self._stats[stat] = value
SetItem(st, stat, value) ==
    [s \in DOMAIN st \cup {stat} |-> IF s = stat THEN value ELSE st[s]]

\* BroadBandModem.__getitem__
GetItem(st, stat) == IF stat \in DOMAIN st THEN st[stat] ELSE StrValue("Unknown")

RECURSIVE Digits(_)
\* a digit string as text
Digits(ds) == IF ds = << >> THEN "" ELSE ToString(Head(ds)) \o Digits(Tail(ds))

\* the number without padding
TwoDigitsUnpadded(n) == ToString(n)

\* "%02d"
TwoDigits(n) == IF n < 10 THEN "0" \o ToString(n) ELSE ToString(n)

\* str(value), as log_stats applies it to every value of the record
Str(value) ==
    CASE value.kind = "str" -> value.s
      [] value.kind = "int" -> ToString(value.v)
      [] value.kind = "HoursDelta" ->
            ToString(value.seconds \div 3600) \o ":"
                \o TwoDigits((value.seconds % 3600) \div 60)
      [] value.kind = "float" ->
            (IF value.int = << >> THEN "0" ELSE Digits(value.int)) \o "."
                \o (IF value.frac = << >> THEN "0" ELSE Digits(value.frac))

----------------------------------------------------------------------------
(* What the modem answers *)

\* The outcome of the searches over one cycle's two responses: for every
\* statistic the groups its pattern captured, or NoMatch.
Response(uptime, dspsd, uspsd, rcvd, xmitted, other, missing) ==
    [s \in Range(ALL_STATS) |->
        IF s \in missing THEN NoMatch
        ELSE CASE s = UPTIME -> uptime
               [] s = DS_PSD -> dspsd
               [] s = US_PSD -> uspsd
               [] s = NE_RCVD_CELLS -> << rcvd >>
               [] s = NE_XMITTED_CELLS -> << xmitted >>
               [] OTHER -> << other >>]

\* every pattern matches; the cell counters are large and small
RespAll ==
    Response(<<U(<<3>>), U(<<0, 7>>)>>, <<U(<<1, 2>>), U(<<5, 0>>)>>,
             <<U(<<0, 7>>), U(<<0>>)>>,
             U(<<2, 1, 4, 7, 4, 8, 3, 6, 4, 7>>), U(<<1, 2>>), U(<<4, 2>>), {})

\* every pattern matches; both cell counters are negative
RespNegative ==
    Response(<<U(<<1, 0, 0>>), U(<<7, 5>>)>>, <<U(<<9>>), U(<<2, 5>>)>>,
             <<U(<<1, 0>>), U(<<0, 5>>)>>,
             M(<<5>>), M(<<2, 1, 4, 7, 4, 8, 3, 6, 4, 8>>), U(<<1, 7>>), {})

\* some lines of the adsl response are missing
RespPartial ==
    Response(<<U(<<0>>), U(<<3>>)>>, <<U(<<0>>), U(<<0, 1>>)>>,
             <<U(<<3>>), U(<<1, 4, 0, 0>>)>>,
             M(<<2, 1, 4, 7, 4, 8, 3, 6, 4, 7>>), U(<<0>>), U(<<0, 0, 8>>),
             {DS_PSD, NE_CRC_COUNT, US_ACTUAL, LINK_TIMES})

\* the uptime line and one counter are missing
RespNoUptime ==
    Response(NoMatch, <<U(<<4>>), U(<<2>>)>>, <<U(<<5>>), U(<<6>>)>>,
             U(<<1>>), M(<<1>>), U(<<3>>), {UPTIME, NE_RCVD_CELLS})

\* nothing matches
RespEmpty ==
    Response(NoMatch, NoMatch, NoMatch, U(<<0>>), U(<<0>>), U(<<0>>), Range(ALL_STATS))

Responses == {RespAll, RespNegative, RespPartial, RespNoUptime, RespEmpty}

\* the responses of the runs that share a directory
RunResponses == {RespPartial}

\* a read that takes more than the half hour between two checks
SlowRead == 31 * TicksPerMinute

\* the time the network exchange of one cycle may take
Latencies == (0..MaxLatency) \cup {SlowRead}

RunLatencies == 0..MaxLatency

\* the places where read_stats can raise
FailurePoints == {"login", "show status", "show adsl", "exit"}

----------------------------------------------------------------------------
(* TelnetConnection *)

\* lines 209-210: the prompts of the Vigor 130
ACCOUNT_PROMPT == "Account:"

PASSWORD_PROMPT == "Password: "

PROMPT == "> "

\* lines 300-302 and 371: the modem and the account
Host == "192.168.1.1"

User == "admin"

Password == "password"

\* one call on the telnetlib.Telnet object
Step(op, arg) == [op |-> op, arg |-> arg]

\* lines 71-80: the calls of TelnetConnection.login
login(host, user, password) ==
    << Step("open", host),
       Step("read_until", ACCOUNT_PROMPT), Step("write", user),
       Step("read_until", PASSWORD_PROMPT), Step("write", password),
       Step("read_until", PROMPT) >>

\* the prompt awaited before the command is sent
ReadCommandReadsFirst(command) == << Step("read_until", PROMPT), Step("write", command) >>

\* lines 82-84: the calls of TelnetConnection.read_command
read_command(command) == << Step("write", command), Step("read_until", PROMPT) >>

\* the session left without closing the connection
ExitWithoutClose == << Step("write", "exit"), Step("read_all", "") >>

\* lines 86-89: the calls of TelnetConnection.exit
exit == << Step("write", "exit"), Step("read_all", ""), Step("close", "") >>

\* lines 213, 215, 226 and 242: the calls of one read_stats, in order
read_stats ==
    login(Host, User, Password) \o read_command("show status")
        \o read_command("show adsl") \o exit

\* the part of read_stats in which its k-th call lies
PointOf(k) ==
    IF k <= Len(login(Host, User, Password)) THEN "login"
    ELSE IF k <= Len(login(Host, User, Password)) + Len(read_command("show status"))
         THEN "show status"
    ELSE IF k <= Len(read_stats) - Len(exit) THEN "show adsl"
    ELSE "exit"

\* the connection of the cycle before handed out again
ConnectPooled(history) == IF history = << >> THEN 1 ELSE history[Len(history)].socket

\* line 72: Telnet.open makes a connection of its own, one no earlier cycle had
Connect(history) == Len(history) + 1

RECURSIVE SocketsAfter(_, _, _)
\* the open sockets after the calls steps, where open connects socket id
SocketsAfter(open, id, steps) ==
    IF steps = << >> THEN open
    ELSE SocketsAfter(CASE Head(steps).op = "open" -> open \cup {id}
                        [] Head(steps).op = "close" -> open \ {id}
                        [] OTHER -> open,
                      id, Tail(steps))

----------------------------------------------------------------------------
(* Vigor130Modem.read_stats *)

RECURSIVE StoreMatches(_, _, _, _)
\* lines 217-240: the loop over the patterns of one response, names[i..]
StoreMatches(st, names, resp, i) ==
    IF i > Len(names) THEN st
    ELSE LET stat == names[i]
             groups == resp[stat]
             next == IF groups # NoMatch
                     THEN SetItem(st, stat,
                                  IF stat \in Range(STATUS_STATS)
                                  THEN StatusValue(groups)
                                  ELSE AdslValue(stat, groups))
                     ELSE st
         IN  StoreMatches(next, names, resp, i + 1)

\* lines 217-224
AfterStatus(st, resp) == StoreMatches(st, STATUS_STATS, resp, 1)

\* the adsl loop after the earlier adsl values were dropped
AfterAdslResetting(st, resp) ==
    StoreMatches([s \in DOMAIN st \cap Range(STATUS_STATS) |-> st[s]], ADSL_STATS, resp, 1)

\* lines 227-240
AfterAdsl(st, resp) == StoreMatches(st, ADSL_STATS, resp, 1)

\* the store emptied when read_stats begins
AfterFailureCleared(st, resp, point) ==
    CASE point = "login" -> << >>
      [] point = "show status" -> st
      [] point = "show adsl" -> AfterStatus(st, resp)
      [] point = "exit" -> AfterAdsl(AfterStatus(st, resp), resp)

\* the store when read_stats raised at point
AfterFailure(st, resp, point) ==
    CASE point \in {"login", "show status"} -> st
      [] point = "show adsl" -> AfterStatus(st, resp)
      [] point = "exit" -> AfterAdsl(AfterStatus(st, resp), resp)

----------------------------------------------------------------------------
(* StatsLogger and CSVStatsLogger *)

NoOutput == [kind |-> "none"]

Stdout == [kind |-> "stdout"]

FileOutput(name) == [kind |-> "file", name |-> name]

\* the file always opened for writing
OpenFlagsAlwaysWrite(exists) == "w"

\* lines 261-264
OpenFlags(exists) == IF exists THEN "a" ELSE "w"

\* open(filename, flags): "w" creates or truncates, "a" creates or keeps
Open(fs, name, flags) ==
    IF flags = "w" \/ name \notin DOMAIN fs
    THEN [f \in DOMAIN fs \cup {name} |-> IF f = name THEN << >> ELSE fs[f]]
    ELSE fs

Extension == IF fformat = "csv" THEN "csv" ELSE "log"

\* StatsLogger.start, and CSVStatsLogger.start which calls it
ReporterStart(t) ==
    /\ started' = Append(started, [timestamp |-> t, reads |-> Len(polls), logs |-> Len(emitted)])
    /\ IF to_file
       THEN LET filename == log_filename(t, Extension)
            IN  /\ new_logfile' = (filename \notin DOMAIN files)
                /\ files' = Open(files, filename, OpenFlags(filename \in DOMAIN files))
                /\ output' = FileOutput(filename)
       ELSE /\ output' = Stdout
            /\ UNCHANGED <<new_logfile, files>>

\* StatsLogger.log: the lines of one record
DumpLines(t, data) ==
    << [kind |-> "timestamp", timestamp |-> FormatMinutes(t)] >>
        \o [i \in 1..Len(data) |-> [kind |-> "stat", field |-> data[i][1], value |-> data[i][2]]]

\* CSVStatsLogger.log: the rows of one record
CSVRows(t, data, header) ==
    (IF header
     THEN << [kind |-> "header", fields |-> [i \in 1..Len(data) |-> data[i][1]]] >>
     ELSE << >>)
        \o << [kind |-> "data", timestamp |-> FormatSeconds(t),
               values |-> [i \in 1..Len(data) |-> data[i][2]]] >>

\* what log writes to the open output
Written(t, data) ==
    IF fformat = "csv" THEN CSVRows(t, data, new_logfile) ELSE DumpLines(t, data)

\* StatsLogger.log and CSVStatsLogger.log
ReporterLog(t, data) ==
    /\ IF output.kind = "file"
       THEN /\ files' = [files EXCEPT ![output.name] = @ \o Written(t, data)]
            /\ UNCHANGED stdout
       ELSE /\ stdout' = stdout \o Written(t, data)
            /\ UNCHANGED files
    /\ new_logfile' = IF fformat = "csv" THEN FALSE ELSE new_logfile
    /\ UNCHANGED output

----------------------------------------------------------------------------
(* ConnectionStats.log_stats *)

\* a record of the statistics the store holds, in catalog order
ReportRecordOfStore(st) ==
    LET present == SelectSeq(ALL_STATS, LAMBDA s : s \in DOMAIN st)
    IN  [i \in 1..Len(present) |-> << present[i], Str(st[present[i]]) >>]

\* lines 161-162: the Report Record
ReportRecord(st) ==
    [i \in 1..Len(ALL_STATS) |-> << ALL_STATS[i], Str(GetItem(st, ALL_STATS[i])) >>]

\* the whole interval slept
SleepWholeInterval(minutes) == minutes * 60 * TicksPerSecond

\* line 163: interval*60 - 0.5 seconds
SleepTicks(minutes) == minutes * 60 * TicksPerSecond - TicksPerSecond \div 2

Running == {"test", "read", "rotate", "log", "sleep"}

\* log_stats without the first call of Reporter.start
StartWithoutReporter ==
    /\ pc = "idle"
    /\ log_datetime' = now
    /\ log_day' = DayOf(now)
    /\ end_time' = now + duration * TicksPerHour
    /\ pc' = "test"
    /\ UNCHANGED <<run, now, duration, interval, to_file, fformat, stats,
                   stdout, polls, emitted, failure, output, new_logfile, files,
                   started>>
    /\ UNCHANGED net

\* lines 149-154
Start ==
    /\ pc = "idle"
    /\ log_datetime' = now
    /\ log_day' = DayOf(now)
    /\ ReporterStart(now)
    /\ end_time' = now + duration * TicksPerHour
    /\ pc' = "test"
    /\ UNCHANGED <<run, now, duration, interval, to_file, fformat, stats,
                   stdout, polls, emitted, failure>>
    /\ UNCHANGED net

\* the loop without its way out
LoopTestNoExit ==
    /\ pc = "test"
    /\ log_datetime < end_time
    /\ pc' = "read"
    /\ UNCHANGED <<run, now, duration, interval, to_file, fformat, log_datetime,
                   log_day, end_time, stats, output, new_logfile, files,
                   stdout, polls, emitted, failure, started>>
    /\ UNCHANGED net

\* the loop entered when the sample is the end time itself
LoopTestInclusive ==
    /\ pc = "test"
    /\ pc' = IF log_datetime <= end_time THEN "read" ELSE "finished"
    /\ UNCHANGED <<run, now, duration, interval, to_file, fformat, log_datetime,
                   log_day, end_time, stats, output, new_logfile, files,
                   stdout, polls, emitted, failure, started>>
    /\ UNCHANGED net

\* line 155, and line 165 when the loop ends
LoopTest ==
    /\ pc = "test"
    /\ pc' = IF log_datetime < end_time THEN "read" ELSE "finished"
    /\ UNCHANGED <<run, now, duration, interval, to_file, fformat, log_datetime,
                   log_day, end_time, stats, output, new_logfile, files,
                   stdout, polls, emitted, failure, started>>
    /\ UNCHANGED net

\* line 156: read_stats returns
ReadStats(resp, latency) ==
    /\ pc = "read"
    /\ stats' = AfterAdsl(AfterStatus(stats, resp), resp)
    /\ polls' = Append(polls, resp)
    /\ now' = now + latency
    /\ session' = read_stats
    /\ sockets' = SocketsAfter(sockets, Connect(used), read_stats)
    /\ used' = Append(used, [instance |-> connection, socket |-> Connect(used)])
    /\ pc' = "rotate"
    /\ UNCHANGED <<run, duration, interval, to_file, fformat, log_datetime,
                   log_day, end_time, output, new_logfile, files, stdout,
                   emitted, failure, connection, started>>

\* line 156: read_stats raises in one of the calls of point, after the calls
\* before it; nothing in log_stats or around it catches the exception, which
\* ends the process
ReadStatsFails(resp, point, latency) ==
    /\ pc = "read"
    /\ \E k \in 1..Len(read_stats) :
        /\ PointOf(k) = point
        /\ session' = SubSeq(read_stats, 1, k - 1)
    /\ sockets' = SocketsAfter(sockets, Connect(used), session')
    /\ used' = Append(used, [instance |-> connection, socket |-> Connect(used)])
    /\ stats' = AfterFailure(stats, resp, point)
    /\ failure' = point
    /\ now' = now + latency
    /\ pc' = "aborted"
    /\ UNCHANGED <<run, duration, interval, to_file, fformat, log_datetime,
                   log_day, end_time, output, new_logfile, files, stdout,
                   polls, emitted, connection, started>>

\* lines 157-159
Rotate ==
    /\ pc = "rotate"
    /\ IF to_file /\ DayOf(log_datetime) # log_day
       THEN /\ log_day' = DayOf(log_datetime)
            /\ ReporterStart(log_datetime)
       ELSE UNCHANGED <<log_day, output, new_logfile, files, started>>
    /\ pc' = "log"
    /\ UNCHANGED <<run, now, duration, interval, to_file, fformat, log_datetime,
                   end_time, stats, stdout, polls, emitted, failure>>
    /\ UNCHANGED net

\* lines 160-162
Log ==
    /\ pc = "log"
    /\ ReporterLog(log_datetime, ReportRecord(stats))
    /\ emitted' = Append(emitted, [timestamp |-> log_datetime, data |-> ReportRecord(stats)])
    /\ pc' = "sleep"
    /\ UNCHANGED <<run, now, duration, interval, to_file, fformat, log_datetime,
                   log_day, end_time, stats, polls, failure, started>>
    /\ UNCHANGED net

\* the sleep without the new sample of the clock
SleepKeepsTime ==
    /\ pc = "sleep"
    /\ now' = now + SleepTicks(interval)
    /\ pc' = "test"
    /\ UNCHANGED <<run, duration, interval, to_file, fformat, log_datetime,
                   log_day, end_time, stats, output, new_logfile, files,
                   stdout, polls, emitted, failure, started>>
    /\ UNCHANGED net

\* lines 163-164
Sleep ==
    /\ pc = "sleep"
    /\ now' = now + SleepTicks(interval)
    /\ log_datetime' = now'
    /\ pc' = "test"
    /\ UNCHANGED <<run, duration, interval, to_file, fformat, log_day, end_time,
                   stats, output, new_logfile, files, stdout, polls, emitted,
                   failure, started>>
    /\ UNCHANGED net

\* the process is terminated from outside
Kill ==
    /\ pc \in Running
    /\ pc' = "killed"
    /\ UNCHANGED <<run, now, duration, interval, to_file, fformat, log_datetime,
                   log_day, end_time, stats, output, new_logfile, files,
                   stdout, polls, emitted, failure, started>>
    /\ UNCHANGED net

\* lines 373-378: the program is started again in the same directory, with
\* the same command line
NewRun ==
    /\ pc \in {"finished", "aborted", "killed"}
    /\ run < MaxRuns
    /\ run' = run + 1
    /\ pc' = "idle"
    /\ stats' = << >>
    /\ output' = NoOutput
    /\ new_logfile' = TRUE
    /\ stdout' = << >>
    /\ polls' = << >>
    /\ emitted' = << >>
    /\ failure' = "none"
    /\ connection' = run + 1
    /\ session' = << >>
    /\ sockets' = {}
    /\ used' = << >>
    /\ started' = << >>
    /\ UNCHANGED <<now, duration, interval, to_file, fformat, log_datetime,
                   log_day, end_time, files>>

----------------------------------------------------------------------------
(* The specifications *)

\* <<duration in hours, interval in minutes>>, as -d and -t give them
Configs == { <<1, 30>>, <<1, 45>>, <<745, 44640>> }

RunConfigs == { <<1, 30>> }

StartTimes == { At(1, 15, 23, 30, 0), At(1, 31, 12, 0, 0) }

RunStartTimes == { At(1, 15, 23, 30, 0) }

\* lines 136-141, 170-174, 251-254 and 373-378: the objects as constructed
InitWith(configs, starts) ==
    /\ pc = "idle"
    /\ run = 1
    /\ now \in starts
    /\ \E c \in configs : duration = c[1] /\ interval = c[2]
    /\ to_file \in BOOLEAN
    /\ fformat \in {"dump", "csv"}
    /\ log_datetime = 0
    /\ log_day = 0
    /\ end_time = 0
    /\ stats = << >>
    /\ output = NoOutput
    /\ new_logfile = TRUE
    /\ files = << >>
    /\ stdout = << >>
    /\ polls = << >>
    /\ emitted = << >>
    /\ failure = "none"
    /\ connection = 1
    /\ session = << >>
    /\ sockets = {}
    /\ used = << >>
    /\ started = << >>

Init == InitWith(Configs, StartTimes)

Read == \E resp \in Responses, latency \in Latencies : ReadStats(resp, latency)

ReadFails ==
    \E resp \in Responses, point \in FailurePoints, latency \in 0..MaxLatency :
        ReadStatsFails(resp, point, latency)

Next == Start \/ LoopTest \/ Read \/ ReadFails \/ Rotate \/ Log \/ Sleep \/ Kill

\* one run of the program
Spec == Init /\ [][Next]_vars

InitRuns == InitWith(RunConfigs, RunStartTimes)

RunRead == \E resp \in RunResponses, latency \in RunLatencies : ReadStats(resp, latency)

RunReadFails ==
    \E resp \in RunResponses, point \in FailurePoints :
        ReadStatsFails(resp, point, 0)

NextRuns ==
    Start \/ LoopTest \/ RunRead \/ RunReadFails \/ Rotate \/ Log \/ Sleep \/ Kill \/ NewRun

\* several runs, one after another, in the same directory
SpecRuns == InitRuns /\ [][NextRuns]_vars

\* the periods of the runs that are followed to their end
LiveConfigs == { <<1, 30>>, <<1, 20>>, <<2, 45>>, <<745, 44640>> }

LiveResponses == {RespAll, RespEmpty}

InitLive == InitWith(LiveConfigs, StartTimes)

LiveRead == \E resp \in LiveResponses, latency \in Latencies : ReadStats(resp, latency)

NextLive == Start \/ LoopTest \/ LiveRead \/ Rotate \/ Log \/ Sleep

\* one run in which every read returns, nothing fails and nothing ends the
\* process: log_stats is sequential code, so its next step is always taken
SpecLive == InitLive /\ [][NextLive]_vars /\ WF_vars(NextLive)

----------------------------------------------------------------------------
(* Properties *)

\* the positions of log_stats at which every cycle begun has been completed
BetweenCycles == {"sleep", "test", "read", "finished"}

\* the positions of log_stats between read_stats and Reporter.log
AfterRead == {"rotate", "log"}

IsPrefix(s, t) == Len(s) <= Len(t) /\ SubSeq(t, 1, Len(s)) = s

\* the time the k-th cycle took beyond its sleep, once the next sample is
\* taken: the k+1-st sample is the timestamp of the next record, or
\* log_datetime when no further record follows
CycleLatency(k) ==
    (IF k < Len(emitted) THEN emitted[k + 1].timestamp ELSE log_datetime)
        - emitted[k].timestamp - SleepTicks(interval)

\* C1: a read_stats that fails does not end the run: after the failure
\* log_stats is still in its loop.
C1_FailureKeepsRunning == failure # "none" => pc \in Running

\* C2, as stated: with a duration of 1 hour and an interval of 30 minutes the
\* run finishes with exactly 2 records, whatever the latencies.
C2_ExactlyTwoRecords ==
    (duration = 1 /\ interval = 30 /\ pc = "finished") => Len(emitted) = 2

\* C2, amended: with a duration of 1 hour and an interval of 30 minutes the
\* run finishes with 2 records when the first cycle took less than 30 min
\* 0.5 s and the first two cycles together took at least 1 s, with 3 records
\* when the first two cycles together took less than 1 s, and with 1 record
\* when the first cycle took 30 min 0.5 s or more.
C2_RecordsByLatency ==
    (duration = 1 /\ interval = 30 /\ pc = "finished") =>
        /\ Len(emitted) \in 1..3
        /\ Len(emitted) = 1 => CycleLatency(1) >= 30 * TicksPerMinute + 1
        /\ Len(emitted) = 2 =>
            /\ CycleLatency(1) < 30 * TicksPerMinute + 1
            /\ CycleLatency(1) + CycleLatency(2) >= TicksPerSecond
        /\ Len(emitted) = 3 => CycleLatency(1) + CycleLatency(2) < TicksPerSecond

\* a run of 1 hour with checks 30 minutes apart has finished with 2 records,
\* its first two cycles having taken 1 s together
C2_Witness ==
    /\ duration = 1 /\ interval = 30 /\ pc = "finished"
    /\ Len(emitted) = 2
    /\ CycleLatency(1) + CycleLatency(2) = TicksPerSecond

\* C3: with per-day output, when the last two records' timestamps fall on
\* different calendar dates, the later one was written to the destination
\* named for its date.
C3_LaterDateLaterFile ==
    (to_file /\ pc = "sleep" /\ Len(emitted) >= 2
        /\ DateOf(emitted[Len(emitted) - 1].timestamp)
                # DateOf(emitted[Len(emitted)].timestamp))
    => output = FileOutput(log_filename(emitted[Len(emitted)].timestamp, Extension))

\* C4: every CSV file that holds a data row holds exactly one header row,
\* and the header is its first row.
C4_OneHeaderFirst ==
    \A f \in DOMAIN files :
        (f.ext = "csv" /\ \E i \in 1..Len(files[f]) : files[f][i].kind = "data") =>
            /\ files[f][1].kind = "header"
            /\ \A i \in 2..Len(files[f]) : files[f][i].kind = "data"

\* the value the lookup of a statistic must give after the cycles of a
\* history: that of the last cycle in which its pattern matched
LastMatch(history, stat) ==
    LET matched == {i \in 1..Len(history) : history[i][stat] # NoMatch}
    IN  IF matched = {} THEN StrValue("Unknown")
        ELSE LET last == CHOOSE i \in matched : \A j \in matched : j <= i
             IN  IF stat = UPTIME THEN StatusValue(history[last][stat])
                 ELSE AdslValue(stat, history[last][stat])

\* C5: after completed cycles the lookup of every statistic gives the value
\* of the last cycle in which its pattern matched, and "Unknown" when it
\* matched in none.
C5_LookupIsLastMatch ==
    pc \in BetweenCycles \cup AfterRead =>
        \A stat \in Range(ALL_STATS) : GetItem(stats, stat) = LastMatch(polls, stat)

\* DS PSD matched in the first cycle and not in the second and keeps its
\* value; Uptime matched in neither and reads "Unknown"
C5_Witness ==
    /\ pc = "rotate"
    /\ Len(polls) = 2
    /\ polls[1][DS_PSD] # NoMatch /\ polls[2][DS_PSD] = NoMatch
    /\ GetItem(stats, DS_PSD) = PyFloat(polls[1][DS_PSD][1], polls[1][DS_PSD][2])
    /\ polls[1][UPTIME] = NoMatch /\ polls[2][UPTIME] = NoMatch
    /\ GetItem(stats, UPTIME) = StrValue("Unknown")

\* the identifiers of a dump record's lines, and of a CSV header
Fields(lines) == [i \in 1..Len(lines) |-> lines[i].field]

\* what the reporter wrote holds the catalog in its order: a CSV header
\* names it, a CSV row has a value for each entry, and in a dump every
\* timestamp line is followed by one line per entry
SinkInCatalogOrder(rows) ==
    \A i \in 1..Len(rows) :
        CASE rows[i].kind = "header" -> rows[i].fields = ALL_STATS
          [] rows[i].kind = "data" -> Len(rows[i].values) = Len(ALL_STATS)
          [] rows[i].kind = "timestamp" ->
                /\ i + Len(ALL_STATS) <= Len(rows)
                /\ \A j \in 1..Len(ALL_STATS) : rows[i + j].kind = "stat"
                /\ Fields(SubSeq(rows, i + 1, i + Len(ALL_STATS))) = ALL_STATS
                /\ i + Len(ALL_STATS) < Len(rows) =>
                        rows[i + Len(ALL_STATS) + 1].kind = "timestamp"
          [] OTHER -> TRUE

\* C6: every Report Record holds one pair per catalog entry, in the order
\* of ALL_STATS, and so does what either reporter wrote.
C6_CatalogOrder ==
    /\ \A k \in 1..Len(emitted) :
            [i \in 1..Len(emitted[k].data) |-> emitted[k].data[i][1]] = ALL_STATS
    /\ SinkInCatalogOrder(stdout)
    /\ \A f \in DOMAIN files : SinkInCatalogOrder(files[f])

\* two records were emitted, the first after a cycle in which nothing
\* matched, the second after one in which some statistics matched
C6_Witness ==
    /\ Len(emitted) = 2
    /\ polls[1] = RespEmpty
    /\ polls[2] = RespPartial
    /\ emitted[1].data[1] = << UPTIME, "Unknown" >>
    /\ emitted[2].data[1] = << UPTIME, "0:03" >>
    /\ emitted[2].data[3] = << LINK_TIMES, "Unknown" >>

\* C7: one record is emitted per completed cycle, after its read_stats and
\* before the next, and the records' timestamps increase strictly.
C7_OneRecordPerCycle ==
    /\ pc \in AfterRead => Len(polls) = Len(emitted) + 1
    /\ pc \in BetweenCycles => Len(polls) = Len(emitted)
    /\ \A k \in 1..(Len(emitted) - 1) : emitted[k].timestamp < emitted[k + 1].timestamp

\* a run has finished after three cycles and three records
C7_Witness ==
    /\ pc = "finished"
    /\ Len(polls) = 3
    /\ Len(emitted) = 3

\* C8: a counter whose capture parses to n is stored as n + (2^31 - 1) when
\* n < 0 and as n otherwise.
C8_SignCorrection ==
    pc \in AfterRead =>
        \A stat \in COUNTER_STATS :
            LET groups == polls[Len(polls)][stat]
            IN  groups # NoMatch =>
                    LET n == PyInt(groups[1])
                    IN  stats[stat] = IntValue(IF n < 0 THEN n + 2147483647 ELSE n)

\* a cycle captured -5 for a counter and 17 for another: they are stored as
\* 2^31 - 6 and 17
C8_Witness ==
    /\ pc = "rotate"
    /\ polls[Len(polls)][NE_RCVD_CELLS] = << M(<<5>>) >>
    /\ stats[NE_RCVD_CELLS] = IntValue(2147483642)
    /\ stats[NE_CRC_COUNT] = IntValue(17)

\* C9: a counter whose capture parses to a number of the signed 32-bit
\* range is stored as a number that is not negative.
C9_CountersNotNegative ==
    pc \in AfterRead =>
        \A stat \in COUNTER_STATS :
            LET groups == polls[Len(polls)][stat]
            IN  (groups # NoMatch
                    /\ PyInt(groups[1]) >= -2147483647 - 1
                    /\ PyInt(groups[1]) <= 2147483647)
                => stats[stat].v >= 0

\* C10: no step removes or changes what a file holds: every file stays, what
\* it held is the beginning of what it holds, and a file that appears is
\* empty.
C10_StartKeepsRecords ==
    [][/\ \A f \in DOMAIN files : f \in DOMAIN files' /\ IsPrefix(files[f], files'[f])
       /\ \A f \in DOMAIN files' \ DOMAIN files : files'[f] = << >>]_vars

\* a later run has started on the file an earlier run wrote records to, and
\* has logged a record of its own behind them
C10_Witness ==
    /\ run = 2
    /\ pc = "sleep"
    /\ Len(emitted) = 1
    /\ output.kind = "file"
    /\ Cardinality({i \in 1..Len(files[output.name]) :
                        files[output.name][i].kind \in {"data", "timestamp"}}) >= 2

\* C11: a failure in TelnetConnection.exit is not propagated out of
\* read_stats: the run goes on after it.
C11_ExitFailureKeepsRunning == failure = "exit" => pc \in Running \cup {"finished"}

\* C12: a read_stats that fails during connect or login leaves the store as
\* it was before the cycle.
C12_LoginFailureKeepsStore ==
    [][(pc = "read" /\ failure' = "login") => stats' = stats]_vars

\* a cycle failed in login after an earlier cycle had filled the store, which
\* still holds what that cycle read
C12_Witness ==
    /\ failure = "login"
    /\ Len(polls) = 1
    /\ polls[1] = RespAll
    /\ stats = AfterAdsl(AfterStatus(<< >>, RespAll), RespAll)

\* C13, as stated: no two cycles use the same transport instance.
C13_NewInstancePerCycle ==
    \A i, j \in 1..Len(used) : i < j => used[i].instance # used[j].instance

\* C13, amended: every cycle of a run uses the one TelnetConnection instance
\* the modem was constructed with, and opens a connection of its own on it:
\* no two cycles use the same connection.
C13_NewSocketPerCycle ==
    /\ \A i \in 1..Len(used) : used[i].instance = connection
    /\ \A i, j \in 1..Len(used) : i < j => used[i].socket # used[j].socket

\* three cycles have run on the one instance
C13_Witness ==
    /\ pc = "finished"
    /\ Len(used) = 3
    /\ used[1].instance = used[3].instance

\* the calls of one cycle, as the order of the session fixes them
SessionOrder ==
    << <<"open", "192.168.1.1">>,
       <<"read_until", "Account:">>, <<"write", "admin">>,
       <<"read_until", "Password: ">>, <<"write", "password">>,
       <<"read_until", "> ">>, <<"write", "show status">>,
       <<"read_until", "> ">>, <<"write", "show adsl">>,
       <<"read_until", "> ">>, <<"write", "exit">>,
       <<"read_all", "">>, <<"close", "">> >>

\* C14: the calls of a cycle follow the fixed order, each write right after
\* the read of the prompt it answers, none left out and none repeated; a
\* cycle that completed made them all.
C14_SessionOrder ==
    /\ Len(session) <= Len(SessionOrder)
    /\ \A k \in 1..Len(session) : << session[k].op, session[k].arg >> = SessionOrder[k]
    /\ \A k \in 1..Len(session) :
            session[k].op = "write" =>
                /\ k > 1
                /\ session[k - 1].op = "read_until"
                /\ session[k - 1].arg =
                        CASE session[k].arg = "admin" -> "Account:"
                          [] session[k].arg = "password" -> "Password: "
                          [] OTHER -> "> "
    /\ pc \in AfterRead => Len(session) = Len(SessionOrder)

\* the second cycle of a run has completed its session
C14_Witness ==
    /\ pc = "rotate"
    /\ Len(polls) = 2
    /\ Len(session) = 13
    /\ session[9] = Step("write", "show adsl")

\* C15: when every read returns and nothing fails, log_stats reaches
\* Finished, and it does so at the first sample of the clock that is not
\* before end_time: every record's sample was before it.
C15_ReachesFinished ==
    /\ <>(pc = "finished")
    /\ [](pc = "finished" =>
            /\ log_datetime >= end_time
            /\ \A k \in 1..Len(emitted) : emitted[k].timestamp < end_time)
    /\ [][(pc = "test" /\ log_datetime >= end_time) => pc' = "finished"]_vars

\* a run of 2 hours has finished after its cycles
C15_Witness ==
    /\ pc = "finished"
    /\ duration = 2
    /\ Len(emitted) >= 3

\* C16: every record's timestamp lies in start_time .. end_time - 1 tick, the
\* first record carries start_time, and no cycle runs on a sample at or
\* after end_time.
C16_TimestampsInWindow ==
    LET start_time == end_time - duration * TicksPerHour
    IN  /\ \A k \in 1..Len(emitted) :
                start_time <= emitted[k].timestamp /\ emitted[k].timestamp < end_time
        /\ Len(emitted) >= 1 => emitted[1].timestamp = start_time
        /\ pc \in {"read", "rotate", "log", "sleep"} => log_datetime < end_time
        /\ pc = "finished" => log_datetime >= end_time /\ Len(polls) = Len(emitted)

\* a run has finished on a sample that is end_time itself, after 2 records
C16_Witness ==
    /\ pc = "finished"
    /\ log_datetime = end_time
    /\ Len(emitted) = 2
    /\ emitted[1].timestamp = end_time - TicksPerHour

\* C17: Reporter.start was called with the initial timestamp before any
\* read or log, and only that call came before the first log; log runs with
\* an open destination; and every later call of start came after its
\* cycle's read_stats and before its cycle's log, with that cycle's timestamp.
C17_StartBeforeLog ==
    /\ pc # "idle" =>
        /\ Len(started) >= 1
        /\ started[1] = [timestamp |-> end_time - duration * TicksPerHour,
                         reads |-> 0, logs |-> 0]
        /\ \A i \in 2..Len(started) : started[i].logs >= 1
    /\ (pc = "log" \/ Len(emitted) >= 1) => output # NoOutput
    /\ \A i \in 2..Len(started) :
        /\ started[i].reads = started[i].logs + 1
        /\ started[i].logs < Len(emitted) =>
                emitted[started[i].logs + 1].timestamp = started[i].timestamp
        /\ (started[i].logs = Len(emitted) /\ pc = "log") =>
                log_datetime = started[i].timestamp

\* the second cycle of a run crossed midnight: start was called for it after
\* its read and before its log
C17_Witness ==
    /\ pc = "sleep"
    /\ Len(emitted) = 2
    /\ Len(started) = 2
    /\ started[2] = [timestamp |-> emitted[2].timestamp, reads |-> 2, logs |-> 1]
    /\ output = FileOutput(log_filename(emitted[2].timestamp, Extension))

\* the place of a statistic in the catalog
IndexOf(stat) == CHOOSE i \in 1..Len(ALL_STATS) : ALL_STATS[i] = stat

C19_TextAsCaptured ==
    \A k \in 1..Len(emitted) : \A stat \in PSD_STATS :
        polls[k][stat] # NoMatch =>
            emitted[k].data[IndexOf(stat)] =
                << stat, Digits(polls[k][stat][1].digits) \o "."
                            \o Digits(polls[k][stat][2].digits) >>

\* C19, amended: the text of a PSD value is the integer part without its
\* leading zeros (a single 0 when nothing is left), a dot, and the
\* fractional digits without their trailing zeros (a single 0 when nothing
\* is left).
C19_TextOfFloat ==
    \A k \in 1..Len(emitted) : \A stat \in PSD_STATS :
        polls[k][stat] # NoMatch =>
            LET i == StripLeft(polls[k][stat][1].digits)
                f == StripRight(polls[k][stat][2].digits)
            IN  emitted[k].data[IndexOf(stat)] =
                    << stat, (IF i = << >> THEN "0" ELSE Digits(i)) \o "."
                                \o (IF f = << >> THEN "0" ELSE Digits(f)) >>

\* the captures (12, "50") and (07, "0") were emitted as "12.5" and "7.0"
C19_Witness ==
    /\ Len(emitted) >= 1
    /\ polls[1][DS_PSD] = << U(<<1, 2>>), U(<<5, 0>>) >>
    /\ emitted[1].data[IndexOf(DS_PSD)] = << DS_PSD, "12.5" >>
    /\ polls[1][US_PSD] = << U(<<0, 7>>), U(<<0>>) >>
    /\ emitted[1].data[IndexOf(US_PSD)] = << US_PSD, "7.0" >>

\* C20: in a run without failures no connection is open between the cycles,
\* while the scheduler sleeps or after it finished, every cycle opened one
\* connection and closed it last, and at no point of a session more than one
\* connection is open.
C20_OneConnectionAtMost ==
    failure = "none" =>
        /\ sockets = {}
        /\ Len(used) = Len(polls)
        /\ session # << >> =>
            /\ Cardinality({k \in 1..Len(session) : session[k].op = "open"}) = 1
            /\ session[1].op = "open"
            /\ session[Len(session)].op = "close"
            /\ \A k \in 0..Len(session) :
                    Cardinality(SocketsAfter({}, Len(used), SubSeq(session, 1, k))) <= 1
            /\ \A k \in 1..(Len(session) - 1) :
                    SocketsAfter({}, Len(used), SubSeq(session, 1, k)) = {Len(used)}

\* the scheduler sleeps after its second cycle, with no connection open
C20_Witness ==
    /\ pc = "sleep"
    /\ failure = "none"
    /\ Len(used) = 2
    /\ used[2].socket = 2
    /\ sockets = {}

====
